---- MODULE Spec2Model ----
(***************************************************************************)
(* A model of generate_tiles.py: one run of main(), from the parsed        *)
(* arguments to the final cleanup.  The run is a straight line of stages;  *)
(* gdal.UseExceptions() (line 7) turns every failing GDAL call into an     *)
(* exception that ends the run.                                            *)
(*                                                                         *)
(* Units.  Cell values are counted in tenths (1021.5 is 10215).            *)
(* Latitudes are counted in units of 6e-8 degree, in which 85.05112878 is  *)
(* the integer 1417518813; longitudes are whole degrees.  A raster is one  *)
(* column of MaxRows pixels, a pixel standing for the point at its centre. *)
(***************************************************************************)
EXTENDS Integers, Sequences, FiniteSets

VARIABLES pc, src, zoom, scaled_ds, color_ds, valid_alpha, col_ds, files,
          tiles, printed, ran

vars == <<pc, src, zoom, scaled_ds, color_ds, valid_alpha, col_ds, files,
          tiles, printed, ran>>

\* ---------------------------------------------------------------- bounds
MaxRows == 2
MaxBands == 2

\* ------------------------------------------------------ program constants
vmin == 10215
vmax == 10275
dst_lo == 1
dst_hi == 255
dstNodata == 0
Opaque == 255
Transparent == 0
SafeLat == 1417518813
SafeLon == 180

temp_color_tif == "temp_color.tif"
clipped_4326 == "temp_color_clip4326.tif"
warped_tif == "temp_color_3857.tif"
TempFiles == {temp_color_tif, clipped_4326, warped_tif}

\* ----------------------------------------------------------- cell values
Fin(v) == [k |-> "fin", v |-> v]
NaN == [k |-> "nan", v |-> 0]
PosInf == [k |-> "inf", v |-> 1]

\* np.isfinite
isfinite(x) == x.k = "fin"

\* The cells a band-1 pixel is drawn from: NaN, an infinity, -9999 (the usual
\* no-data sentinel, and a finite value below vmin), and a value in [vmin, vmax].
Band1Values == {NaN, PosInf, Fin(-99990), Fin(10245)}
\* Bands beyond the first are only ever read through np.isfinite.
OtherBandValues == {NaN, Fin(10245)}

\* GetNoDataValue(): None, or the declared sentinel.
NoDataDecls == {[set |-> FALSE, v |-> NaN], [set |-> TRUE, v |-> Fin(-99990)]}

\* Where the raster lies: the latitude of its top row and its longitude.
\* The rows straddle the northern bound, the southern bound, or lie at the
\* equator east of 180 degrees.
GeoRefs == {[top |-> SafeLat + 1, lon |-> SafeLon],
            [top |-> 0 - SafeLat, lon |-> 0 - SafeLon],
            [top |-> 1, lon |-> SafeLon + 1]}

\* The -z argument, "zMin-zMax": the default, one with zMin > zMax, and one
\* with a negative bound.
ZoomArgs == {[zmin |-> 0, zmax |-> 3], [zmin |-> 3, zmax |-> 1],
             [zmin |-> -1, zmax |-> 2]}

\* zoom_levels is set from the arguments on line 20 and nothing reads it
\* before the tile stage hands it to gdal2tiles; the model draws it there.
ZoomUnread == [zmin |-> 0, zmax |-> 0]

Rows == 1..MaxRows

BandArrays(n) ==
    { [i \in 1..n |-> IF i = 1 THEN a ELSE rest[i]] :
        a \in [Rows -> Band1Values], rest \in [2..n -> [Rows -> OtherBandValues]] }

SrcInputs ==
    UNION { { [nb |-> n, nd |-> d, top |-> g.top, lon |-> g.lon, band |-> b] :
                b \in BandArrays(n), d \in NoDataDecls, g \in GeoRefs } :
            n \in 1..MaxBands }

\* The point a pixel of the source grid stands for.
Pos(ras, r) == [lat |-> ras.top - (r - 1), lon |-> ras.lon]
SrcPositions == { Pos(src, r) : r \in Rows }
RowOf(p) == CHOOSE r \in Rows : Pos(src, r) = p

NoRaster == [p \in {} |-> 0]
NoFile == [exists |-> FALSE, px |-> NoRaster]

\* ------------------------------------------------ 1. scaling (gdal.Translate)
\* Conversion of a rational num/den to GDT_Byte: clamp to [0, 255], round half up.
ByteCast(num, den) ==
    IF num < 0 THEN 0
    ELSE IF num > 255 * den THEN 255
    ELSE (2 * num + den) \div (2 * den)

\* scaleParams=[[vmin, vmax, 1, 255]] gives a scale and an offset, applied to
\* every cell that is not the source no-data value; the result is cast to Byte.
\* A no-data cell gets the destination no-data value.  NaN casts to 0 and an
\* infinity to the end of the Byte range on its side.
ScaleCell(x, nd) ==
    IF nd.set /\ x = nd.v THEN dstNodata
    ELSE IF x.k = "nan" THEN 0
    ELSE IF x.k = "inf" THEN (IF x.v > 0 THEN 255 ELSE 0)
    ELSE ByteCast((x.v - vmin) * (dst_hi - dst_lo) + dst_lo * (vmax - vmin),
                  vmax - vmin)

Translate(ras) == [r \in Rows |-> ScaleCell(ras.band[1][r], ras.nd)]

\* --------------------------------------- 2. color relief (gdal.DEMProcessing)
\* The entries of the colormap file, which is an input of the run.
ColormapEntries == {1, 128, 255}

Dist(a, b) == IF a >= b THEN a - b ELSE b - a

\* colorSelection='nearest_color_entry'
NearestEntry(b) ==
    CHOOSE e \in ColormapEntries :
        \A f \in ColormapEntries :
            Dist(e, b) < Dist(f, b) \/ (Dist(e, b) = Dist(f, b) /\ e <= f)

\* addAlpha=True: a no-data cell of the scaled raster (0) is transparent,
\* every other cell is opaque and takes the colour of its entry.
DEMProcessing(scaled) ==
    [r \in Rows |->
        IF scaled[r] = dstNodata
        THEN [rgb |-> 0, a |-> Transparent]
        ELSE [rgb |-> NearestEntry(scaled[r]), a |-> Opaque]]

\* gdal.Translate(temp_color_tif, color_ds): the GeoTIFF keeps the source grid.
SaveGTiff(color) == [p \in SrcPositions |-> color[RowOf(p)]]

\* ------------------------------------------------- alpha from the source
RECURSIVE ValidAcc(_, _, _)
\* The loop over the bands: valid = isfinite(arr) if valid is None else
\* valid & isfinite(arr), for bands i..RasterCount, at row r.
ValidAcc(ras, i, r) ==
    IF i > ras.nb THEN TRUE
    ELSE isfinite(ras.band[i][r]) /\ ValidAcc(ras, i + 1, r)

\* (faulty variant: only the first band is looked at)
ValidAlphaFirstBandOnly(ras) ==
    [r \in Rows |-> IF isfinite(ras.band[1][r]) THEN Opaque ELSE Transparent]

\* valid_alpha = np.where(np.isfinite(...), 255, 0), lines 98-107
ValidAlpha(ras) ==
    IF ras.nb = 1
    THEN [r \in Rows |-> IF isfinite(ras.band[1][r]) THEN Opaque ELSE Transparent]
    ELSE [r \in Rows |-> IF ValidAcc(ras, 1, r) THEN Opaque ELSE Transparent]

\* (faulty variant: the array is written to band 1)
WriteArrayToBand1(px, arr) ==
    [p \in DOMAIN px |-> [px[p] EXCEPT !.rgb = arr[RowOf(p)]]]

\* col_ds.GetRasterBand(4).WriteArray(valid_alpha)
WriteArray(px, arr) ==
    [p \in DOMAIN px |-> [px[p] EXCEPT !.a = arr[RowOf(p)]]]

\* ------------------------------------------------------- 3, 4. gdal.Warp
Lats(px) == { p.lat : p \in DOMAIN px }
Lons(px) == { p.lon : p \in DOMAIN px }
MaxOf(S) == CHOOSE m \in S : \A x \in S : x <= m
MinOf(S) == CHOOSE m \in S : \A x \in S : m <= x

\* The grid points in and right around the extent of a raster.
Around(px) ==
    { [lat |-> l, lon |-> g] :
        l \in (MinOf(Lats(px)) - 1)..(MaxOf(Lats(px)) + 1),
        g \in (MinOf(Lons(px)) - 1)..MaxOf(Lons(px)) }

\* (faulty variant: the bounds themselves are cut off)
InBoundsExclusive(p) ==
    /\ 0 - SafeLat < p.lat /\ p.lat < SafeLat
    /\ 0 - SafeLon < p.lon /\ p.lon < SafeLon

\* outputBounds=safe_bounds_4326 = (-180.0, -85.05112878, 180.0, 85.05112878)
InBounds(p) ==
    /\ 0 - SafeLat <= p.lat /\ p.lat <= SafeLat
    /\ 0 - SafeLon <= p.lon /\ p.lon <= SafeLon

AlphaAt(px, p) == IF p \in DOMAIN px THEN px[p].a ELSE Transparent

\* (faulty variant: the alpha of two neighbours is averaged)
ResampleAverage(px, p) ==
    [rgb |-> IF p \in DOMAIN px THEN px[p].rgb ELSE 0,
     a |-> (AlphaAt(px, p) + AlphaAt(px, [p EXCEPT !.lat = p.lat - 1])) \div 2]

\* resampleAlg="nearest", srcAlpha=True, dstAlpha=True: a destination pixel
\* is the one source pixel at its centre, or transparent where there is none.
Resample(px, p) ==
    IF p \in DOMAIN px THEN px[p] ELSE [rgb |-> 0, a |-> Transparent]

\* gdal.Warp(clipped_4326, temp_color_tif, options=clip_opts)
ClipWarp(px) == [p \in { q \in Around(px) : InBounds(q) } |-> Resample(px, p)]

\* gdal.Warp(warped_tif, clipped_4326, options=warp_opts): the destination
\* grid spans the extent of its input; a destination pixel is named by the
\* geographic point its centre projects back to.
MercatorWarp(px) == [p \in DOMAIN px |-> Resample(px, p)]

\* ----------------------------------------------------------- 5. gdal2tiles
\* gdal2tiles -z zMin-zMax refuses a range it cannot parse as two
\* non-negative integers with zMin <= zMax, before it writes any tile.
ZoomValid(z) == z.zmin >= 0 /\ z.zmax >= 0 /\ z.zmin <= z.zmax

\* result.returncode
ReturnCode(z, ok) == IF ZoomValid(z) /\ ok THEN 0 ELSE 1

\* (faulty variant: the return code is not looked at)
ReturnCodeIgnored(rc) == FALSE
\* if result.returncode != 0: raise RuntimeError
Raises(rc) == rc # 0

Init ==
    /\ pc = "mkdir"
    /\ src \in SrcInputs
    /\ zoom = ZoomUnread
    /\ scaled_ds = <<>>
    /\ color_ds = <<>>
    /\ valid_alpha = <<>>
    /\ col_ds = "none"
    /\ files = [f \in TempFiles |-> NoFile]
    /\ tiles = {}
    /\ printed = FALSE
    /\ ran = <<>>

\* ------------------------------------------------------------- stage ends
\* gdal.UseExceptions(): a failing call raises, and nothing catches it.
\* (faulty variant: an error is not raised and the run goes on)
AfterStageIgnoringErrors(ok, nxt) == nxt
\* gdal.UseExceptions(); raise RuntimeError(...)
AfterStage(ok, nxt) == IF ok THEN nxt ELSE "failed"

Stage(name, ok, nxt) ==
    /\ pc' = AfterStage(ok, nxt)
    /\ ran' = Append(ran, [stage |-> name, ok |-> ok])

\* os.makedirs(out_dir, exist_ok=True)
MakeOutDir ==
    /\ pc = "mkdir"
    /\ \E ok \in BOOLEAN : Stage("mkdir", ok, "open")
    /\ UNCHANGED <<src, zoom, scaled_ds, color_ds, valid_alpha, col_ds, files,
                   tiles, printed>>

\* ds = gdal.Open(tif_path)
OpenInput ==
    /\ pc = "open"
    /\ \E ok \in BOOLEAN : Stage("open", ok, "scale")
    /\ UNCHANGED <<src, zoom, scaled_ds, color_ds, valid_alpha, col_ds, files,
                   tiles, printed>>

\* translate_opts = gdal.TranslateOptions(...);
\* scaled_ds = gdal.Translate('', ds, options=translate_opts).  Both branches
\* of "if src_nd is not None" ask for the same scaling, with or without the
\* source no-data value; the stage fails when building the options or the
\* translation raises.
Scale ==
    /\ pc = "scale"
    /\ \E ok \in BOOLEAN :
        /\ Stage("scale", ok, "colormap")
        /\ scaled_ds' = IF ok THEN Translate(src) ELSE scaled_ds
    /\ UNCHANGED <<src, zoom, color_ds, valid_alpha, col_ds, files, tiles, printed>>

\* if not os.path.exists(cmap_path): raise FileNotFoundError
CheckColormap ==
    /\ pc = "colormap"
    /\ \E exists \in BOOLEAN : Stage("colormap", exists, "color-relief")
    /\ UNCHANGED <<src, zoom, scaled_ds, color_ds, valid_alpha, col_ds, files,
                   tiles, printed>>

\* color_ds = gdal.DEMProcessing('', scaled_ds, 'color-relief', ...)
ColorRelief ==
    /\ pc = "color-relief"
    /\ \E ok \in BOOLEAN :
        /\ Stage("color-relief", ok, "save")
        /\ color_ds' = IF ok /\ scaled_ds # <<>> THEN DEMProcessing(scaled_ds)
                       ELSE color_ds
    /\ UNCHANGED <<src, zoom, scaled_ds, valid_alpha, col_ds, files, tiles, printed>>

\* gdal.Translate(temp_color_tif, color_ds, ...); color_ds = None; scaled_ds = None
SaveColor ==
    /\ pc = "save"
    /\ \E ok \in BOOLEAN :
        /\ Stage("save", ok, "alpha")
        /\ IF ok /\ color_ds # <<>>
           THEN /\ files' = [files EXCEPT ![temp_color_tif] =
                                [exists |-> TRUE, px |-> SaveGTiff(color_ds)]]
                /\ color_ds' = <<>>
                /\ scaled_ds' = <<>>
           ELSE UNCHANGED <<files, color_ds, scaled_ds>>
    /\ UNCHANGED <<src, zoom, valid_alpha, col_ds, tiles, printed>>

\* src_ds = gdal.Open(tif_path, gdal.GA_ReadOnly); valid_alpha = ...
BuildAlpha ==
    /\ pc = "alpha"
    /\ \E ok \in BOOLEAN :
        /\ Stage("alpha", ok, "open-col")
        /\ valid_alpha' = IF ok THEN ValidAlpha(src) ELSE valid_alpha
    /\ UNCHANGED <<src, zoom, scaled_ds, color_ds, col_ds, files, tiles, printed>>

\* col_ds = gdal.Open("temp_color.tif", gdal.GA_Update)
OpenColorized ==
    /\ pc = "open-col"
    /\ \E ok \in BOOLEAN :
        /\ Stage("open-col", ok /\ files[temp_color_tif].exists, "write")
        /\ col_ds' = IF ok /\ files[temp_color_tif].exists THEN "open" ELSE col_ds
    /\ UNCHANGED <<src, zoom, scaled_ds, color_ds, valid_alpha, files, tiles, printed>>

\* alpha_band = col_ds.GetRasterBand(4); alpha_band.WriteArray(valid_alpha)
WriteAlpha ==
    /\ pc = "write"
    /\ \E ok \in BOOLEAN :
        /\ Stage("write", ok, "flush")
        /\ IF ok /\ col_ds = "open" /\ valid_alpha # <<>>
           THEN /\ files' = [files EXCEPT ![temp_color_tif].px =
                                WriteArray(files[temp_color_tif].px, valid_alpha)]
                /\ col_ds' = "written"
           ELSE UNCHANGED <<files, col_ds>>
    /\ UNCHANGED <<src, zoom, scaled_ds, color_ds, valid_alpha, tiles, printed>>

\* alpha_band.FlushCache()
FlushAlpha ==
    /\ pc = "flush"
    /\ \E ok \in BOOLEAN :
        /\ Stage("flush", ok, "release")
        /\ col_ds' = IF ok /\ col_ds = "written" THEN "flushed" ELSE col_ds
    /\ UNCHANGED <<src, zoom, scaled_ds, color_ds, valid_alpha, files, tiles, printed>>

\* col_ds = None; src_ds = None
Release ==
    /\ pc = "release"
    /\ pc' = "clip"
    /\ col_ds' = IF col_ds = "flushed" THEN "closed" ELSE col_ds
    /\ UNCHANGED <<src, zoom, scaled_ds, color_ds, valid_alpha, files, tiles,
                   printed, ran>>

\* 3. gdal.Warp(clipped_4326, temp_color_tif, options=clip_opts)
Clip ==
    /\ pc = "clip"
    /\ \E ok \in BOOLEAN :
        /\ Stage("clip", ok /\ files[temp_color_tif].exists, "reproject")
        /\ files' = IF ok /\ files[temp_color_tif].exists
                    THEN [files EXCEPT ![clipped_4326] =
                            [exists |-> TRUE, px |-> ClipWarp(files[temp_color_tif].px)]]
                    ELSE files
    /\ UNCHANGED <<src, zoom, scaled_ds, color_ds, valid_alpha, col_ds, tiles, printed>>

\* 4. gdal.Warp(warped_tif, clipped_4326, options=warp_opts)
Reproject ==
    /\ pc = "reproject"
    /\ \E ok \in BOOLEAN :
        /\ Stage("reproject", ok /\ files[clipped_4326].exists, "tiles")
        /\ files' = IF ok /\ files[clipped_4326].exists
                    THEN [files EXCEPT ![warped_tif] =
                            [exists |-> TRUE, px |-> MercatorWarp(files[clipped_4326].px)]]
                    ELSE files
    /\ UNCHANGED <<src, zoom, scaled_ds, color_ds, valid_alpha, col_ds, tiles, printed>>

\* 5. subprocess.run([... gdal2tiles, "-z", zoom_levels, ..., warped_tif, out_dir]);
\* a gdal2tiles that fails on its way may have written its base level already.
Tiles ==
    /\ pc = "tiles"
    /\ \E z \in ZoomArgs, ok \in BOOLEAN, partial \in BOOLEAN :
        LET rc == ReturnCode(z, ok /\ files[warped_tif].exists) IN
        /\ zoom' = z
        /\ Stage("tiles", ~Raises(rc), "cleanup")
        /\ tiles' = IF rc = 0 THEN z.zmin..z.zmax
                    ELSE IF ZoomValid(z) /\ partial THEN {z.zmax}
                    ELSE {}
        /\ printed' = ~Raises(rc)
    /\ UNCHANGED <<src, scaled_ds, color_ds, valid_alpha, col_ds, files>>

\* os.remove(temp_color_tif) if it exists; then the same for each of
\* (temp_color_tif, warped_tif).
Cleanup ==
    /\ pc = "cleanup"
    /\ pc' = "done"
    /\ files' = [f \in TempFiles |->
                    IF f \in {temp_color_tif, warped_tif} THEN NoFile ELSE files[f]]
    /\ UNCHANGED <<src, zoom, scaled_ds, color_ds, valid_alpha, col_ds, tiles,
                   printed, ran>>

Next ==
    \/ MakeOutDir \/ OpenInput \/ Scale \/ CheckColormap \/ ColorRelief
    \/ SaveColor \/ BuildAlpha \/ OpenColorized \/ WriteAlpha \/ FlushAlpha
    \/ Release \/ Clip \/ Reproject \/ Tiles \/ Cleanup

Spec == Init /\ [][Next]_vars

\* ------------------------------------------------------------ properties
Ran(name) == \E i \in 1..Len(ran) : ran[i].stage = name
Exists(f) == files[f].exists
Binary(a) == a = 0 \/ a = 255

\* C1 (as claimed): once the validity mask is built, a pixel is marked valid
\* (255) exactly when every band's value there is finite and differs from the
\* declared no-data value, if one is declared.
C1_MaskHonoursNoData ==
    valid_alpha # <<>> =>
        \A r \in Rows :
            (valid_alpha[r] = 255) <=>
                \A i \in 1..src.nb :
                    /\ isfinite(src.band[i][r])
                    /\ (src.nd.set => src.band[i][r] # src.nd.v)

\* C2 (as claimed): once the raster is scaled, a cell is 0 exactly when its
\* source value is the declared no-data value or is not finite; every other
\* cell is in 1..255, is 1 below vmin and 255 above vmax, and the scaled
\* values are ordered as the source values are.
C2_ScaleKeepsSentinelApart ==
    scaled_ds # <<>> =>
        LET NoData(x) == ~isfinite(x) \/ (src.nd.set /\ x = src.nd.v) IN
        \A r \in Rows :
            LET x == src.band[1][r] IN
            /\ (scaled_ds[r] = 0) <=> NoData(x)
            /\ ~NoData(x) =>
                /\ scaled_ds[r] \in 1..255
                /\ (x.v <= vmin => scaled_ds[r] = 1)
                /\ (x.v >= vmax => scaled_ds[r] = 255)
                /\ \A q \in Rows :
                    (~NoData(src.band[1][q]) /\ src.band[1][q].v <= x.v)
                        => scaled_ds[q] <= scaled_ds[r]

\* C3: when the clip is about to start, the alpha of temp_color.tif is the
\* validity mask at every pixel and its colours are those of the color relief;
\* and no geometric step has started unless the alpha overwrite was written,
\* flushed and its handle released.
C3_MaskWinsBeforeWarp ==
    /\ pc = "clip" =>
        /\ Exists(temp_color_tif)
        /\ \A r \in Rows :
            /\ files[temp_color_tif].px[Pos(src, r)].a = valid_alpha[r]
            /\ files[temp_color_tif].px[Pos(src, r)].rgb
                  = DEMProcessing(Translate(src))[r].rgb
    /\ (pc = "clip" \/ Ran("clip") \/ Ran("reproject")) =>
        /\ col_ds = "closed"
        /\ Ran("write") /\ Ran("flush")

\* C3 witness: the clip is about to start on a raster where the color relief
\* had produced an alpha other than the validity mask.
C3_Witness ==
    /\ pc = "clip"
    /\ \E r \in Rows : DEMProcessing(Translate(src))[r].a # valid_alpha[r]

\* C4: a stage that failed is the last stage that ran, the run is then in its
\* error state and has not reported success; no stage runs twice.
C4_FailFast ==
    /\ \A i \in 1..Len(ran) :
        ~ran[i].ok => (i = Len(ran) /\ pc = "failed" /\ ~printed)
    /\ \A i, j \in 1..Len(ran) : ran[i].stage = ran[j].stage => i = j
    /\ pc = "failed" => (ran # <<>> /\ ~ran[Len(ran)].ok)
    /\ printed => \A i \in 1..Len(ran) : ran[i].ok

\* C4 witness: the run failed in the clip, after seven stages had succeeded.
C4_Witness ==
    /\ pc = "failed"
    /\ ran[Len(ran)].stage = "clip"
    /\ ~Ran("reproject") /\ ~Ran("tiles")

\* C5 (as claimed): a run that ended in its error state has no temporary
\* raster left.
C5_TempsRemovedOnFailure ==
    pc = "failed" => \A f \in TempFiles : ~Exists(f)

C7_ClipBeforeReproject ==
    /\ (Ran("reproject") \/ Exists(warped_tif)) =>
        \E i, j \in 1..Len(ran) :
            i < j /\ ran[i] = [stage |-> "clip", ok |-> TRUE]
                  /\ ran[j].stage = "reproject"
    /\ \A f \in {clipped_4326, warped_tif} :
        Exists(f) =>
            \A p \in DOMAIN files[f].px :
                /\ 0 - SafeLat <= p.lat /\ p.lat <= SafeLat
                /\ -180 <= p.lon /\ p.lon <= 180
    /\ \A f \in {clipped_4326, warped_tif} :
        Exists(f) =>
            \A r \in Rows :
                LET p == Pos(src, r) IN
                ((p.lat = SafeLat \/ p.lat = 0 - SafeLat)
                    /\ -180 <= p.lon /\ p.lon <= 180)
                => (p \in DOMAIN files[f].px /\ files[f].px[p].a = valid_alpha[r])

\* C7 witness: a source with one row exactly on the northern bound and one
\* row beyond it has been clipped and reprojected.
C7_Witness ==
    /\ Exists(warped_tif)
    /\ \E r, q \in Rows :
        Pos(src, r).lat = SafeLat /\ Pos(src, q).lat > SafeLat

\* C8: with no declared no-data value, the mask of an all-finite raster is
\* all valid, a raster whose only non-finite cell lies at row r has a mask
\* invalid at r and valid elsewhere, and in general the mask at a pixel is the
\* conjunction over the bands of the finiteness there.
C8_MaskIsFiniteness ==
    (valid_alpha # <<>> /\ ~src.nd.set) =>
        LET Bad == { c \in (1..src.nb) \X Rows : ~isfinite(src.band[c[1]][c[2]]) } IN
        /\ Bad = {} => \A r \in Rows : valid_alpha[r] = 255
        /\ \A c \in Bad :
            Bad = {c} =>
                \A r \in Rows : valid_alpha[r] = (IF r = c[2] THEN 0 ELSE 255)
        /\ \A r \in Rows :
            (valid_alpha[r] = 255) <=> \A i \in 1..src.nb : isfinite(src.band[i][r])
        /\ \A r \in Rows : Binary(valid_alpha[r])

\* C8 witness: the mask was built for a two-band source with no declared
\* no-data value whose only non-finite cell is in the second band.
C8_Witness ==
    /\ valid_alpha # <<>> /\ ~src.nd.set /\ src.nb = 2
    /\ \E r \in Rows :
        /\ ~isfinite(src.band[2][r])
        /\ \A i \in 1..src.nb, q \in Rows :
            <<i, q>> # <<2, r>> => isfinite(src.band[i][q])

\* C9: every alpha of temp_color.tif after the overwrite, of the clipped and
\* of the reprojected raster is 0 or 255, and is 0 at every point that is not
\* a pixel of the source.
C9_AlphaBinary ==
    /\ (Exists(temp_color_tif) /\ col_ds = "closed") =>
        \A p \in DOMAIN files[temp_color_tif].px :
            Binary(files[temp_color_tif].px[p].a)
    /\ \A f \in {clipped_4326, warped_tif} :
        Exists(f) =>
            \A p \in DOMAIN files[f].px :
                /\ Binary(files[f].px[p].a)
                /\ p \notin SrcPositions => files[f].px[p].a = 0

\* C9 witness: the reprojected raster holds an opaque source pixel right
\* below a point that no source pixel covers.
C9_Witness ==
    /\ Exists(warped_tif)
    /\ \E p, q \in DOMAIN files[warped_tif].px :
        /\ q.lon = p.lon /\ q.lat = p.lat + 1
        /\ p \in SrcPositions /\ files[warped_tif].px[p].a = 255
        /\ q \notin SrcPositions

\* C10 (as claimed): after a run that completed, none of the three temporary
\* rasters is left.
C10_TempsRemovedOnSuccess ==
    pc = "done" => \A f \in TempFiles : ~Exists(f)
====
